---- MODULE Spec2Model ----
(***************************************************************************)
(* Movement registration of the SST back end: the registerMovement and     *)
(* deleteMovement handlers of src/controllers/movementController.js, the   *)
(* Movement model they save through (schema validators, pre-save and       *)
(* post-save hooks) and the user directory they read.                      *)
(*                                                                         *)
(* Units.  Numbers the code keeps as floats are integers here:             *)
(*   distances   in thousandths of a km   (15500 = 15.5 km)                *)
(*   speeds      in hundredths of a km/h  (3000  = 30 km/h)                *)
(*   durations   in tenths of a minute    (300   = 30 min)                 *)
(*   coordinates in millionths of a degree                                 *)
(*   instants    in ticks, TicksPerDay ticks to a calendar day             *)
(***************************************************************************)
EXTENDS Integers, Sequences, FiniteSets, TLC

\* ------------------------------------------------------------------ bounds

\* value of the environment variable MAX_MOVEMENTS_PER_DAY
EnvMaxMovementsPerDay == 2
\* resolution of the clock: ticks in one calendar day
TicksPerDay == 2
\* cap on the saves of existing documents counted for one user (the stats
\* counter estadisticas.totalMovimientos grows with every save)
MaxSaves == 2
\* ticks the clock advances in the behaviours of the session specification
MaxElapsed == 2
\* cap on the refresh tokens one user holds in the session specification
MaxHeld == 2

\* --------------------------------------------------------- program constants

DefaultMaxMovementsPerDay == 50
\* login keeps the last 5 refresh tokens of a user
MaxRefreshTokens == 5
\* 0.5 km, in thousandths of a km
distanceTolerance == 500

\* parseInt(process.env.MAX_MOVEMENTS_PER_DAY) || 50
maxMovementsPerDay ==
    IF EnvMaxMovementsPerDay = 0 THEN DefaultMaxMovementsPerDay ELSE EnvMaxMovementsPerDay

\* process.env.VALIDATE_COLOMBIA_BOUNDS === 'true'
VALIDATE_COLOMBIA_BOUNDS == FALSE

\* ------------------------------------------------------------------- users

\* identities a verified access token can carry; u3 has no document in the
\* user directory (an account removed after the token was issued)
UserIds == {"u1", "u2", "u3"}
Registered == {"u1", "u2"}
NoUser == "none"

\* the request slots: registerMovement calls that can be in flight together
Reqs == {"r1", "r2"}

\* the first instant of the behaviour: the last tick of a day, late enough for
\* the clock to look 7 days and a tick back
Now0 == 8 * TicksPerDay + (TicksPerDay - 1)

VARIABLES
    now,         \* the clock (moment(), new Date())
    users,       \* the User collection: id -> [activo, totalMovimientos,
                 \* refreshTokens]
    movements,   \* the Movement collection: sequence of documents, _id = index
    slot,        \* per request slot: the locals of one registerMovement call
    reply        \* the last answer of deleteMovement, getUserMovements or
                 \* getMovementById, where the specification observes them

vars == <<now, users, movements, slot, reply>>

\* ----------------------------------------------------------- time helpers

\* moment(t).startOf('day')
startOfDay(t) == (t \div TicksPerDay) * TicksPerDay
\* moment(t).endOf('day'): the last instant of the day
endOfDay(t) == startOfDay(t) + TicksPerDay - 1

\* ---------------------------------------------------------- geolocation

Abs(x) == IF x < 0 THEN -x ELSE x

P1 == [present |-> TRUE, latitude |-> 4600000, longitude |-> -74100000]
P2 == [present |-> TRUE, latitude |-> 4700000, longitude |-> -74200000]
P3 == [present |-> TRUE, latitude |-> 10400000, longitude |-> -75500000]
\* latitude 91: outside the globe
BadLoc == [present |-> TRUE, latitude |-> 91000000, longitude |-> -74100000]
\* the field is missing from the body
NoLoc == [present |-> FALSE, latitude |-> 0, longitude |-> 0]

\* calculateDistance with cos(lat1) * cos(lat1) for cos(lat1) * cos(lat2): the
\* values that formula gives for the points of the model
calculateDistanceOneLatitude(lat1, lon1, lat2, lon2) ==
    LET dLat == lat2 - lat1
        dLon == lon2 - lon1
        a == <<Abs(dLat), lat1, Abs(dLon)>>
    IN  CASE dLat = 0 /\ dLon = 0 -> 0
          [] a = <<100000, P1.latitude, 100000>> -> 15700
          [] a = <<100000, P2.latitude, 100000>> -> 15700
          [] a = <<5800000, P1.latitude, 1400000>> -> 663370
          [] a = <<5800000, P3.latitude, 1400000>> -> 662890
          [] a = <<5700000, P2.latitude, 1300000>> -> 650000
          [] a = <<5700000, P3.latitude, 1300000>> -> 649590

\* the haversine distance, rounded to 2 decimals, in thousandths of a km.  As
\* in the formula, the result depends on the arguments through
\* sin(dLat/2) * sin(dLat/2) and sin(dLon/2) * sin(dLon/2), squares that are
\* the same for a difference and its opposite, and through the product
\* cos(lat1) * cos(lat2); the values are those the formula gives for the
\* points of the model.
calculateDistance(lat1, lon1, lat2, lon2) ==
    LET dLat == lat2 - lat1
        dLon == lon2 - lon1
        a == <<Abs(dLat), {lat1, lat2}, Abs(dLon)>>
    IN  CASE dLat = 0 /\ dLon = 0 -> 0
          [] a = <<100000, {P1.latitude, P2.latitude}, 100000>> -> 15700
          [] a = <<5800000, {P1.latitude, P3.latitude}, 1400000>> -> 663130
          [] a = <<5700000, {P2.latitude, P3.latitude}, 1300000>> -> 649800
          [] a = <<86400000, {BadLoc.latitude, P1.latitude}, 0>> -> 9607240
          [] a = <<86300000, {BadLoc.latitude, P2.latitude}, 100000>> -> 9596120
          [] a = <<80600000, {BadLoc.latitude, P3.latitude}, 1400000>> -> 8962280

validateLocation(location) ==
    /\ location.present
    /\ ~(\/ location.latitude < -90000000 \/ location.latitude > 90000000
         \/ location.longitude < -180000000 \/ location.longitude > 180000000)
    /\ (VALIDATE_COLOMBIA_BOUNDS =>
          ~(\/ location.latitude < -4200000 \/ location.latitude > 12500000
            \/ location.longitude < -84800000 \/ location.longitude > -66900000))

\* ------------------------------------------------------- number formatting

\* parseFloat(x.toFixed(d)) for x >= 0: the nearest multiple of step, halves up
toFixed(x, step) == ((x + step \div 2) \div step) * step

\* parseInt(x) for x >= 0, x in tenths: the whole part
parseInt(x) == (x \div 10) * 10


\* the quotients of JavaScript numbers that are no finite number
Infinity == -1
NaN == -2

\* distance / (minutes / 60) rounded to two decimals, in 1/100 km/h, for a
\* distance in 1/1000 km and a duration in 1/10 min: 0 unless the average
\* speed is positive; x / 0 is Infinity and 0 / 0 is NaN
efficiency(distancia, tiempo, promedio) ==
    IF promedio <= 0 THEN 0
    ELSE IF tiempo = 0 THEN (IF distancia = 0 THEN NaN ELSE Infinity)
    ELSE (2 * distancia * 60 + tiempo) \div (2 * tiempo)

\* metadata.calculations.efficiency of registerMovement: from the submitted
\* distance, duration and average speed
calculationsEfficiency(body) ==
    efficiency(body.distancia_recorrida, body.tiempo_total, body.velocidad_promedio)

\* summary.efficiency of sanitizeMovementData: from the fields of the document
sanitizeMovementData(movement) ==
    efficiency(movement.distancia_recorrida, movement.tiempo_total,
               movement.velocidad_promedio)

\* ------------------------------------------------------ field validation

\* region.trim()
trim(region) == IF region = " Caldas " THEN "Caldas" ELSE region

\* s.length, for the region names of the model
length(s) ==
    CASE s = "" -> 0
      [] s = "X" -> 1
      [] s = "Caldas" -> 6
      [] s = "Bogota" -> 6
      [] s = " Caldas " -> 8
      [] OTHER -> 6

\* lines 99-105: a location is missing or fails validateLocation
locationErrors(field, location) ==
    IF ~location.present \/ ~validateLocation(location)
    THEN {<<field, "invalid">>} ELSE {}

\* lines 107-113, 123-125: a number is missing or zero (falsy), not positive,
\* or above its ceiling
rangeErrors(field, value, max) ==
    IF value = 0 \/ value <= 0 \/ value > max
    THEN {<<field, "range">>} ELSE {}

\* maxSpeedErrors with the comparison reported on the average speed
maxSpeedErrorsOnAverage(body) ==
    IF body.velocidad_maxima < body.velocidad_promedio
    THEN {<<"velocidad_promedio", "above_maximum">>}
    ELSE rangeErrors("velocidad_maxima", body.velocidad_maxima, 30000)

\* maxSpeedErrors without the comparison with the average speed
maxSpeedErrorsRangeOnly(body) ==
    rangeErrors("velocidad_maxima", body.velocidad_maxima, 30000)

\* lines 115-121: the range rule of the maximum speed, then the rule that it
\* is not below the average speed; the second message replaces the first
maxSpeedErrors(body) ==
    IF body.velocidad_maxima < body.velocidad_promedio
    THEN {<<"velocidad_maxima", "below_average">>}
    ELSE rangeErrors("velocidad_maxima", body.velocidad_maxima, 30000)

\* dateErrors that refuses a date exactly 7 days old (isSameOrBefore)
dateErrorsSevenDaysRefused(fecha, t) ==
    IF fecha < 0 THEN {<<"fecha", "invalid">>}
    ELSE IF fecha <= t - 7 * TicksPerDay THEN {<<"fecha", "too_old">>}
    ELSE IF fecha > t THEN {<<"fecha", "future">>}
    ELSE {}

\* lines 127-138: the date does not parse (fecha = -1), is after the
\* current moment, or is before the current moment minus 7 days
dateErrors(fecha, t) ==
    IF fecha < 0 THEN {<<"fecha", "invalid">>}
    ELSE IF fecha < t - 7 * TicksPerDay THEN {<<"fecha", "too_old">>}
    ELSE IF fecha > t THEN {<<"fecha", "future">>}
    ELSE {}

\* lines 140-142
regionErrors(region) ==
    IF region = "" \/ length(trim(region)) < 2 \/ length(trim(region)) > 50
    THEN {<<"region", "length">>} ELSE {}

\* FieldErrors that returns at the first rule that fails
FieldErrorsFailFast(body, t) ==
    LET rules == << locationErrors("start_location", body.start_location),
                    locationErrors("end_location", body.end_location),
                    rangeErrors("distancia_recorrida", body.distancia_recorrida, 1000000),
                    rangeErrors("velocidad_promedio", body.velocidad_promedio, 20000),
                    maxSpeedErrors(body),
                    rangeErrors("tiempo_total", body.tiempo_total, 14400),
                    dateErrors(body.fecha, t),
                    regionErrors(body.region) >>
        failing == {i \in 1..Len(rules) : rules[i] /= {}}
    IN  IF failing = {} THEN {}
        ELSE rules[CHOOSE i \in failing : \A j \in failing : i <= j]

\* the error map of registerMovement, as pairs <<field, reason>>: every rule
\* is evaluated
FieldErrors(body, t) ==
    locationErrors("start_location", body.start_location)
    \cup locationErrors("end_location", body.end_location)
    \cup rangeErrors("distancia_recorrida", body.distancia_recorrida, 1000000)
    \cup rangeErrors("velocidad_promedio", body.velocidad_promedio, 20000)
    \cup maxSpeedErrors(body)
    \cup rangeErrors("tiempo_total", body.tiempo_total, 14400)
    \cup dateErrors(body.fecha, t)
    \cup regionErrors(body.region)

\* ------------------------------------------------------------ submissions

\* a well-formed trip from P1 to P2 whose claimed distance is within the
\* tolerance of the geodesic one
Base(t) ==
    [start_location |-> P1, end_location |-> P2,
     distancia_recorrida |-> 15500,
     velocidad_promedio |-> 3000, velocidad_maxima |-> 5000,
     tiempo_total |-> 300, fecha |-> t, region |-> "Caldas",
     waypoints |-> <<>>, distancia_calculada |-> 0, user_id |-> NoUser]

\* the request bodies of the model, at instant t
Submissions(t) ==
    { Base(t),
      \* claims 50 km: 34.3 km away from the geodesic distance
      [Base(t) EXCEPT !.distancia_recorrida = 50000],
      \* 10.06 and 10.14 km/h: both round to 10.1
      [Base(t) EXCEPT !.velocidad_promedio = 1006, !.velocidad_maxima = 1014],
      \* maximum speed below the average speed
      [Base(t) EXCEPT !.velocidad_maxima = 2000],
      \* start latitude out of range
      [Base(t) EXCEPT !.start_location = BadLoc],
      \* three waypoints, the second with latitude 91
      [Base(t) EXCEPT !.waypoints = <<P2, BadLoc, P1>>] }

\* trips between every two of three valid points, with the other fields of Base
GeoCases(t) ==
    { [Base(t) EXCEPT !.start_location = a, !.end_location = b] :
        a \in {P1, P2, P3}, b \in {P1, P2, P3} }

\* the request bodies of the store specification: those of Submissions and one
\* that names another user in a user_id property of its own
StoreSubmissions(t) == Submissions(t) \cup { [Base(t) EXCEPT !.user_id = "u2"] }

\* the request bodies that combine, field by field, a value inside the range
\* of the field's rule with values on and beyond its edges.  distancia_calculada
\* is a property of the body that registerMovement does not destructure: absent
\* (0) or 99.999 km.
FieldCases(t) ==
    { [start_location |-> start, end_location |-> end,
       distancia_recorrida |-> distancia,
       velocidad_promedio |-> promedio, velocidad_maxima |-> maxima,
       tiempo_total |-> tiempo, fecha |-> fecha, region |-> region,
       waypoints |-> <<>>, distancia_calculada |-> supplied,
       user_id |-> NoUser] :
        start \in {P1, P2, BadLoc}, end \in {P2, NoLoc},
        supplied \in {0, 99999},
        \* missing, 0.004 km, 15.5 km, 1000.001 km
        distancia \in {0, 4, 15500, 1000001},
        \* missing, 0.04 km/h, 30 km/h, 200.01 km/h
        promedio \in {0, 4, 3000, 20001},
        \* missing, 0.04 km/h, 20 km/h, 50 km/h, 300.01 km/h
        maxima \in {0, 4, 2000, 5000, 30001},
        \* missing, 0.5 min, 30 min, 30.5 min, 1440.1 min
        tiempo \in {0, 5, 300, 305, 14401},
        \* unparseable, a tick more than 7 days ago, 7 days ago, now, a tick ahead
        fecha \in {-1, t - 7 * TicksPerDay - 1, t - 7 * TicksPerDay, t, t + 1},
        region \in {"", "X", "Caldas"} }

NoBody == [none |-> TRUE]
NoMovement == [none |-> TRUE]

\* ------------------------------------------------------ the Movement model

regionEnum ==
    {"Caldas", "Risaralda", "Quindío", "Valle del Cauca", "Antioquia",
     "Cundinamarca", "Nacional"}

\* the values of estado
Estados == {"iniciado", "en_progreso", "pausado", "completado", "cancelado"}

transporteEnum == {"auto", "moto", "bicicleta", "pie", "transporte_publico", "otro"}

\* a path the document does not set ("" for a string, NoUser for a reference)
Undefined == ""

\* the paths of the schema that fail their validators (required, enum, min,
\* max) when the document is saved
SchemaErrors(doc) ==
    LET lat(l) == l.latitude < -90000000 \/ l.latitude > 90000000
        lon(l) == l.longitude < -180000000 \/ l.longitude > 180000000
    IN  (IF doc.user_id = NoUser THEN {"user_id"} ELSE {})
        \cup (IF lat(doc.start_location) THEN {"start_location.latitude"} ELSE {})
        \cup (IF lon(doc.start_location) THEN {"start_location.longitude"} ELSE {})
        \cup (IF lat(doc.end_location) THEN {"end_location.latitude"} ELSE {})
        \cup (IF lon(doc.end_location) THEN {"end_location.longitude"} ELSE {})
        \cup (IF \E i \in 1..Len(doc.waypoints) :
                   lat(doc.waypoints[i]) \/ lon(doc.waypoints[i])
              THEN {"waypoints"} ELSE {})
        \cup (IF doc.distancia_recorrida < 0 \/ doc.distancia_recorrida > 10000000
              THEN {"distancia_recorrida"} ELSE {})
        \cup (IF doc.distancia_calculada < 0 THEN {"distancia_calculada"} ELSE {})
        \cup (IF doc.velocidad_promedio < 0 \/ doc.velocidad_promedio > 30000
              THEN {"velocidad_promedio"} ELSE {})
        \cup (IF doc.velocidad_maxima < 0 \/ doc.velocidad_maxima > 40000
              THEN {"velocidad_maxima"} ELSE {})
        \cup (IF doc.tiempo_total < 0 \/ doc.tiempo_total > 28800
              THEN {"tiempo_total"} ELSE {})
        \cup (IF doc.fecha < 0 THEN {"fecha"} ELSE {})
        \cup (IF doc.estado \notin Estados THEN {"estado"} ELSE {})
        \cup (IF doc.region = Undefined \/ doc.region \notin regionEnum
              THEN {"region"} ELSE {})
        \cup (IF doc.transporte_utilizado = Undefined
                 \/ doc.transporte_utilizado \notin transporteEnum
              THEN {"transporte_utilizado"} ELSE {})

\* tenths of a minute in one tick of the clock
TenthMinutesPerTick == 14400 \div TicksPerDay

\* movementSchema.methods.calcularDuracion: the minutes from fecha to fecha_fin
\* when the document has an end date, else its tiempo_total
calcularDuracion(doc) ==
    IF doc.fecha_fin /= 0
    THEN (doc.fecha_fin - doc.fecha) * TenthMinutesPerTick
    ELSE doc.tiempo_total

\* preSave whose clamp misses the comparison of the two speeds
preSaveAlwaysClamping(doc, isNew, isModified) ==
    LET timed == IF doc.fecha_fin /= 0 /\ doc.tiempo_total = 0
                 THEN [doc EXCEPT !.tiempo_total = calcularDuracion(doc)]
                 ELSE doc
        clamped == IF timed.velocidad_maxima > 0
                   THEN [timed EXCEPT !.velocidad_promedio = timed.velocidad_maxima]
                   ELSE timed
        changed == isModified \/ clamped /= doc
    IN  IF changed /\ ~isNew
        THEN [clamped EXCEPT !.version = clamped.version + 1]
        ELSE clamped

\* movementSchema.pre('save'): a missing duration is computed when the
\* document has an end date, the average speed is clamped to the maximum one,
\* and a modified document that is not new gets its audit version raised
preSave(doc, isNew, isModified) ==
    LET timed == IF doc.fecha_fin /= 0 /\ doc.tiempo_total = 0
                 THEN [doc EXCEPT !.tiempo_total = calcularDuracion(doc)]
                 ELSE doc
        clamped == IF timed.velocidad_maxima > 0
                      /\ timed.velocidad_promedio > timed.velocidad_maxima
                   THEN [timed EXCEPT !.velocidad_promedio = timed.velocidad_maxima]
                   ELSE timed
        changed == isModified \/ clamped /= doc
    IN  IF changed /\ ~isNew
        THEN [clamped EXCEPT !.version = clamped.version + 1]
        ELSE clamped

\* movementSchema.post('save'): User.findByIdAndUpdate(doc.user_id, $inc ...);
\* a user id without a document updates nothing
postSave(us, doc) ==
    IF doc.user_id \in DOMAIN us
    THEN [us EXCEPT ![doc.user_id].totalMovimientos = @ + 1]
    ELSE us

\* Movement.countDocuments({user_id, fecha: {$gte: from, $lte: to}})
countDocuments(ms, userId, from, to) ==
    Cardinality({i \in 1..Len(ms) :
                   /\ ms[i].user_id = userId
                   /\ ms[i].fecha >= from
                   /\ ms[i].fecha <= to})

\* findOne by _id alone
findOneByIdOnly(ms, movementId, userId) ==
    IF movementId \in 1..Len(ms) THEN movementId ELSE 0

\* Movement.findOne({_id: movementId, user_id: userId}): the index, or 0
findOne(ms, movementId, userId) ==
    IF movementId \in 1..Len(ms) /\ ms[movementId].user_id = userId
    THEN movementId ELSE 0

\* movementData that takes distancia_calculada from the body when it has one
movementDataTrustingCaller(userId, body, calculatedDistance) ==
    [user_id |-> userId,
     start_location |-> body.start_location,
     end_location |-> body.end_location,
     distancia_recorrida |-> toFixed(body.distancia_recorrida, 10),
     distancia_calculada |-> IF body.distancia_calculada /= 0
                             THEN body.distancia_calculada
                             ELSE calculatedDistance,
     velocidad_promedio |-> toFixed(body.velocidad_promedio, 10),
     velocidad_maxima |-> toFixed(body.velocidad_maxima, 10),
     tiempo_total |-> parseInt(body.tiempo_total),
     fecha |-> body.fecha,
     region |-> trim(body.region),
     transporte_utilizado |-> Undefined,
     waypoints |-> SelectSeq(body.waypoints, validateLocation),
     deleted |-> FALSE, deletedAt |-> 0, deletedBy |-> NoUser,
     version |-> 1, estado |-> "iniciado", fecha_fin |-> 0]

\* movementData whose owner is the user_id of the body when it has one
movementDataOwnerFromBody(userId, body, calculatedDistance) ==
    [user_id |-> IF body.user_id /= NoUser THEN body.user_id ELSE userId,
     start_location |-> body.start_location,
     end_location |-> body.end_location,
     distancia_recorrida |-> toFixed(body.distancia_recorrida, 10),
     distancia_calculada |-> calculatedDistance,
     velocidad_promedio |-> toFixed(body.velocidad_promedio, 10),
     velocidad_maxima |-> toFixed(body.velocidad_maxima, 10),
     tiempo_total |-> parseInt(body.tiempo_total),
     fecha |-> body.fecha,
     region |-> trim(body.region),
     transporte_utilizado |-> Undefined,
     waypoints |-> SelectSeq(body.waypoints, validateLocation),
     deleted |-> FALSE, deletedAt |-> 0, deletedBy |-> NoUser,
     version |-> 1, estado |-> "iniciado", fecha_fin |-> 0]

\* the movementData object of registerMovement
movementData(userId, body, calculatedDistance) ==
    [user_id |-> userId,
     start_location |-> body.start_location,
     end_location |-> body.end_location,
     distancia_recorrida |-> toFixed(body.distancia_recorrida, 10),
     distancia_calculada |-> calculatedDistance,
     velocidad_promedio |-> toFixed(body.velocidad_promedio, 10),
     velocidad_maxima |-> toFixed(body.velocidad_maxima, 10),
     tiempo_total |-> parseInt(body.tiempo_total),
     fecha |-> body.fecha,
     region |-> trim(body.region),
     transporte_utilizado |-> Undefined,
     waypoints |-> SelectSeq(body.waypoints, validateLocation),
     deleted |-> FALSE, deletedAt |-> 0, deletedBy |-> NoUser,
     version |-> 1, estado |-> "iniciado", fecha_fin |-> 0]

\* --------------------------------------------------------------- the store

\* a document saved through the Movement model before the behaviour starts
SeedMovement(userId, fecha) ==
    [user_id |-> userId,
     start_location |-> P1, end_location |-> P2,
     distancia_recorrida |-> 15500, distancia_calculada |-> 15700,
     velocidad_promedio |-> 3000, velocidad_maxima |-> 5000,
     tiempo_total |-> 300, fecha |-> fecha, region |-> "Caldas",
     transporte_utilizado |-> "auto", waypoints |-> <<>>,
     deleted |-> FALSE, deletedAt |-> 0, deletedBy |-> NoUser, version |-> 1,
     estado |-> "iniciado", fecha_fin |-> 0]

\* the collections the process can find: k documents of u1 dated today, then
\* one of u1 dated yesterday
SeedStore(k) ==
    [i \in 1..k |-> SeedMovement("u1", startOfDay(Now0))]
    \o << SeedMovement("u1", Now0 - TicksPerDay) >>

NoResponse ==
    [status |-> 0, code |-> "", errors |-> {}, currentCount |-> 0, limit |-> 0,
     todayMovements |-> 0, remainingToday |-> 0, movementId |-> 0]

Respond(status, code) == [NoResponse EXCEPT !.status = status, !.code = code]

\* no refresh token
NoToken == [userId |-> NoUser, iat |-> 0]

\* no deleteMovement, getUserMovements or getMovementById answered yet
NoReply ==
    [op |-> "", userId |-> NoUser, movementId |-> 0, status |-> 0, code |-> "",
     movements |-> {}, totalMovements |-> 0, previous |-> 0, next |-> 0,
     refresh_token |-> NoToken, refreshToken |-> NoToken]

\* the locals of a registerMovement call; user is what User.findById gave
\* ("unread" before it answers), movementsToday is -1 before the count answers
Idle ==
    [pc |-> "idle", userId |-> NoUser, body |-> NoBody, calculatedDistance |-> 0,
     user |-> "unread", todayStart |-> 0, todayEnd |-> 0, movementsToday |-> -1,
     movement |-> NoMovement, res |-> NoResponse]

Init ==
    /\ now = Now0
    /\ \E k \in 0..maxMovementsPerDay :
         /\ movements = SeedStore(k)
         /\ users = [u \in Registered |->
                       [activo |-> TRUE, refreshTokens |-> <<>>,
                        totalMovimientos |->
                          Cardinality({i \in 1..Len(SeedStore(k)) :
                                         SeedStore(k)[i].user_id = u})]]
    /\ slot = [r \in Reqs |-> Idle]
    /\ reply = NoReply

\* --------------------------------------------------------- registerMovement

\* received with a discrepancy above the tolerance answered as an error
receivedRejectingDiscrepancy(userId, body, t) ==
    LET errors == FieldErrors(body, t)
        calculatedDistance ==
            calculateDistance(body.start_location.latitude,
                              body.start_location.longitude,
                              body.end_location.latitude,
                              body.end_location.longitude)
    IN  IF errors /= {}
        THEN [Idle EXCEPT !.pc = "done", !.userId = userId, !.body = body,
                          !.res = [Respond(400, "MOVEMENT_VALIDATION_ERROR")
                                     EXCEPT !.errors = errors]]
        ELSE IF Abs(calculatedDistance - body.distancia_recorrida) > distanceTolerance
        THEN [Idle EXCEPT !.pc = "done", !.userId = userId, !.body = body,
                          !.calculatedDistance = calculatedDistance,
                          !.res = Respond(400, "DISTANCE_MISMATCH")]
        ELSE [Idle EXCEPT !.pc = "findUser", !.userId = userId, !.body = body,
                          !.calculatedDistance = calculatedDistance]

\* received without the early return on a non-empty error map
receivedIgnoringErrors(userId, body, t) ==
    [Idle EXCEPT !.pc = "findUser", !.userId = userId, !.body = body,
                 !.calculatedDistance =
                     calculateDistance(body.start_location.latitude,
                                       body.start_location.longitude,
                                       body.end_location.latitude,
                                       body.end_location.longitude)]

\* lines 71-170, the synchronous part: the body is read, every field rule is
\* evaluated, a non-empty error map is answered with 400; otherwise the
\* geodesic distance is computed, a discrepancy above the tolerance is only
\* logged, and User.findById is awaited
received(userId, body, t) ==
    LET errors == FieldErrors(body, t)
        calculatedDistance ==
            calculateDistance(body.start_location.latitude,
                              body.start_location.longitude,
                              body.end_location.latitude,
                              body.end_location.longitude)
    IN  IF errors /= {}
        THEN [Idle EXCEPT !.pc = "done", !.userId = userId, !.body = body,
                          !.res = [Respond(400, "MOVEMENT_VALIDATION_ERROR")
                                     EXCEPT !.errors = errors]]
        ELSE [Idle EXCEPT !.pc = "findUser", !.userId = userId, !.body = body,
                          !.calculatedDistance = calculatedDistance]

registerMovement(r, userId, body) ==
    /\ slot[r].pc = "idle"
    /\ slot' = [slot EXCEPT ![r] = received(userId, body, now)]
    /\ UNCHANGED <<now, users, movements, reply>>

\* foundUser that tests only that the user exists (!user), not user.activo
foundUserIgnoringActivo(s, us, t) ==
    IF s.userId \notin DOMAIN us
    THEN [s EXCEPT !.pc = "done", !.user = "absent",
                   !.res = Respond(403, "USER_NOT_AUTHORIZED")]
    ELSE [s EXCEPT !.pc = "countDocuments",
                   !.user = IF us[s.userId].activo THEN "active" ELSE "inactive",
                   !.todayStart = startOfDay(t), !.todayEnd = endOfDay(t)]

\* lines 173-186: the user read by findById is absent or inactive: 403;
\* otherwise the day window is taken from the clock and the count is awaited
foundUser(s, us, t) ==
    LET user == IF s.userId \notin DOMAIN us THEN "absent"
                ELSE IF us[s.userId].activo THEN "active" ELSE "inactive"
    IN  IF user = "absent" \/ user = "inactive"
        THEN [s EXCEPT !.pc = "done", !.user = user,
                       !.res = Respond(403, "USER_NOT_AUTHORIZED")]
        ELSE [s EXCEPT !.pc = "countDocuments", !.user = user,
                       !.todayStart = startOfDay(t), !.todayEnd = endOfDay(t)]

registerMovement_findUser(r) ==
    /\ slot[r].pc = "findUser"
    /\ slot' = [slot EXCEPT ![r] = foundUser(slot[r], users, now)]
    /\ UNCHANGED <<now, users, movements, reply>>

\* limitReached with > for >=
limitReachedStrict(movementsToday) == movementsToday > maxMovementsPerDay

\* line 197: movementsToday >= maxMovementsPerDay
limitReached(movementsToday) == movementsToday >= maxMovementsPerDay

\* counted without the return after the 429 answer: the handler goes on to
\* build and save the document
countedFallingThrough(s, ms) ==
    LET movementsToday == countDocuments(ms, s.userId, s.todayStart, s.todayEnd)
    IN  [s EXCEPT !.pc = "save", !.movementsToday = movementsToday,
                  !.movement = movementData(s.userId, s.body, s.calculatedDistance),
                  !.res = IF movementsToday >= maxMovementsPerDay
                          THEN [Respond(429, "DAILY_LIMIT_EXCEEDED")
                                  EXCEPT !.currentCount = movementsToday,
                                         !.limit = maxMovementsPerDay]
                          ELSE NoResponse]

\* counted over the calendar day of the submission's own date
countedOnSubmissionDay(s, ms) ==
    LET movementsToday == countDocuments(ms, s.userId, startOfDay(s.body.fecha),
                                         endOfDay(s.body.fecha))
    IN  IF limitReached(movementsToday)
        THEN [s EXCEPT !.pc = "done", !.movementsToday = movementsToday,
                       !.res = [Respond(429, "DAILY_LIMIT_EXCEEDED")
                                  EXCEPT !.currentCount = movementsToday,
                                         !.limit = maxMovementsPerDay]]
        ELSE [s EXCEPT !.pc = "save", !.movementsToday = movementsToday,
                       !.movement = movementData(s.userId, s.body,
                                                 s.calculatedDistance)]

\* lines 188-247: the count arrives; at the limit the answer is 429 with the
\* count and the limit, below it the document is built and save() is awaited
counted(s, ms) ==
    LET movementsToday == countDocuments(ms, s.userId, s.todayStart, s.todayEnd)
    IN  IF limitReached(movementsToday)
        THEN [s EXCEPT !.pc = "done", !.movementsToday = movementsToday,
                       !.res = [Respond(429, "DAILY_LIMIT_EXCEEDED")
                                  EXCEPT !.currentCount = movementsToday,
                                         !.limit = maxMovementsPerDay]]
        ELSE [s EXCEPT !.pc = "save", !.movementsToday = movementsToday,
                       !.movement = movementData(s.userId, s.body,
                                                 s.calculatedDistance)]

registerMovement_count(r) ==
    /\ slot[r].pc = "countDocuments"
    /\ slot' = [slot EXCEPT ![r] = counted(slot[r], movements)]
    /\ UNCHANGED <<now, users, movements, reply>>

\* lines 248-333: movement.save().  The schema validators run first; a
\* ValidationError is caught and answered with 400.  A valid document goes
\* through the pre-save hook, is inserted, the post-save hook counts it for
\* its user, and the answer is 201 with the day's numbers.
registerMovement_save(r) ==
    /\ slot[r].pc = "save"
    /\ LET s == slot[r]
           invalid == SchemaErrors(s.movement)
           doc == preSave(s.movement, TRUE, TRUE)
       IN  IF invalid /= {}
           THEN /\ slot' = [slot EXCEPT ![r] =
                     [s EXCEPT !.pc = "done",
                               !.res = [Respond(400, "MONGOOSE_VALIDATION_ERROR")
                                          EXCEPT !.errors =
                                            {<<f, "schema">> : f \in invalid}]]]
                /\ UNCHANGED <<users, movements>>
           ELSE /\ movements' = Append(movements, doc)
                /\ users' = postSave(users, doc)
                /\ slot' = [slot EXCEPT ![r] =
                     [s EXCEPT !.pc = "done", !.movement = doc,
                               !.res = [Respond(201, "")
                                          EXCEPT !.movementId = Len(movements) + 1,
                                                 !.todayMovements = s.movementsToday + 1,
                                                 !.remainingToday =
                                                   maxMovementsPerDay
                                                     - (s.movementsToday + 1)]]]
    /\ UNCHANGED <<now, reply>>

\* a rejected store call that is taken for an empty count: the handler goes on
\* to build and save the document
rejectedSwallowed(s) ==
    [s EXCEPT !.pc = "save",
              !.movement = movementData(s.userId, s.body, s.calculatedDistance)]

\* lines 302-333: an awaited store call rejects with an error that is no
\* ValidationError; the catch block answers 500 and the handler ends
rejected(s) ==
    [s EXCEPT !.pc = "done", !.res = Respond(500, "MOVEMENT_REGISTRATION_ERROR")]

\* registerMovement_count on a store that may reject the count
registerMovement_countOnStore(r, rejects) ==
    /\ slot[r].pc = "countDocuments"
    /\ slot' = [slot EXCEPT ![r] = IF rejects THEN rejected(slot[r])
                                   ELSE counted(slot[r], movements)]
    /\ UNCHANGED <<now, users, movements, reply>>

\* registerMovement_save on a store that may reject the insert: the schema
\* validators run in the process before anything is sent to the store
registerMovement_saveOnStore(r, rejects) ==
    /\ slot[r].pc = "save"
    /\ LET s == slot[r]
           invalid == SchemaErrors(s.movement)
           doc == preSave(s.movement, TRUE, TRUE)
       IN  IF invalid /= {}
           THEN /\ slot' = [slot EXCEPT ![r] =
                     [s EXCEPT !.pc = "done",
                               !.res = [Respond(400, "MONGOOSE_VALIDATION_ERROR")
                                          EXCEPT !.errors =
                                            {<<f, "schema">> : f \in invalid}]]]
                /\ UNCHANGED <<users, movements>>
           ELSE IF rejects
           THEN /\ slot' = [slot EXCEPT ![r] = rejected(s)]
                /\ UNCHANGED <<users, movements>>
           ELSE /\ movements' = Append(movements, doc)
                /\ users' = postSave(users, doc)
                /\ slot' = [slot EXCEPT ![r] =
                     [s EXCEPT !.pc = "done", !.movement = doc,
                               !.res = [Respond(201, "")
                                          EXCEPT !.movementId = Len(movements) + 1,
                                                 !.todayMovements = s.movementsToday + 1,
                                                 !.remainingToday =
                                                   maxMovementsPerDay
                                                     - (s.movementsToday + 1)]]]
    /\ UNCHANGED <<now, reply>>

\* the response has been sent: the slot serves the next request
registerMovement_end(r) ==
    /\ slot[r].pc = "done"
    /\ slot' = [slot EXCEPT ![r] = Idle]
    /\ UNCHANGED <<now, users, movements, reply>>

\* ----------------------------------------------------------- deleteMovement

\* the saves of existing documents counted for userId so far
Resaves(userId) ==
    users[userId].totalMovimientos
      - Cardinality({i \in 1..Len(movements) : movements[i].user_id = userId})

\* deleteMovement with the hard delete of line 818 (findByIdAndDelete) in
\* place of the soft delete
deleteMovementHard(userId, movementId) ==
    /\ userId \in Registered => Resaves(userId) < MaxSaves
    /\ LET found == findOne(movements, movementId, userId)
       IN  IF movementId = 0 \/ found = 0
           THEN UNCHANGED <<users, movements>>
           ELSE /\ movements' = [i \in 1..(Len(movements) - 1) |->
                                   IF i < found THEN movements[i] ELSE movements[i + 1]]
                /\ UNCHANGED users
    /\ UNCHANGED <<now, slot>>

\* lines 774-845.  movementId 0 is an id that is no ObjectId (400); the
\* document is looked up by id and owner (404); it is marked deleted and saved
\* through the model: validators (an error is answered with 500), pre-save
\* hook, write, post-save hook.
deleteMovement(userId, movementId) ==
    /\ userId \in Registered => Resaves(userId) < MaxSaves
    /\ LET found == findOne(movements, movementId, userId)
           loaded == movements[found]
           marked == [loaded EXCEPT !.deleted = TRUE, !.deletedAt = now,
                                    !.deletedBy = userId]
           saved == preSave(marked, FALSE, marked /= loaded)
       IN  IF movementId = 0 \/ found = 0 \/ SchemaErrors(marked) /= {}
           THEN UNCHANGED <<users, movements>>
           ELSE /\ movements' = [movements EXCEPT ![found] = saved]
                /\ users' = postSave(users, saved)
    /\ UNCHANGED <<now, slot>>

\* lines 787-845: the answer of deleteMovement(userId, movementId) on the
\* collection ms
deleteMovementAnswer(ms, userId, movementId, t) ==
    LET found == findOne(ms, movementId, userId)
        marked == [ms[found] EXCEPT !.deleted = TRUE, !.deletedAt = t,
                                    !.deletedBy = userId]
        answer(status, code) ==
            [NoReply EXCEPT !.op = "deleteMovement", !.userId = userId,
                            !.movementId = movementId,
                            !.status = status, !.code = code]
    IN  IF movementId = 0 THEN answer(400, "INVALID_MOVEMENT_ID")
        ELSE IF found = 0 THEN answer(404, "MOVEMENT_NOT_FOUND")
        ELSE IF SchemaErrors(marked) /= {} THEN answer(500, "DELETE_MOVEMENT_ERROR")
        ELSE answer(200, "")

\* deleteMovement with its answer observed
deleteMovement_answered(userId, movementId) ==
    /\ reply' = deleteMovementAnswer(movements, userId, movementId, now)
    /\ deleteMovement(userId, movementId)

\* ---------------------------------------------------------- getUserMovements

\* Movement.find(filters): the ids of the documents of userId, dated from
\* startDate on when the query gives one (0: no startDate)
find(ms, userId, startDate) ==
    {i \in 1..Len(ms) :
       /\ ms[i].user_id = userId
       /\ (startDate /= 0 => ms[i].fecha >= startDate)}

\* lines 337-471, with the default page (1), page size (20) and sort: the
\* documents that match the filters, and their count.  The collections of the
\* model fit in one page; the order of the page is not observed.
getUserMovements(userId, startDate) ==
    /\ reply' = [NoReply EXCEPT
                   !.op = "getUserMovements", !.userId = userId, !.status = 200,
                   !.movements = find(movements, userId, startDate),
                   !.totalMovements = Cardinality(find(movements, userId, startDate))]
    /\ UNCHANGED <<now, users, movements, slot>>

\* ----------------------------------------------------------- getMovementById

\* Movement.findOne({user_id, fecha: {$lt: fecha}}).sort({fecha: -1}): the ids
\* the query can give (any of the latest ones before fecha), {0} when none
previousMovement(ms, userId, fecha) ==
    LET before == {i \in 1..Len(ms) : ms[i].user_id = userId /\ ms[i].fecha < fecha}
    IN  IF before = {} THEN {0}
        ELSE {i \in before : \A j \in before : ms[j].fecha <= ms[i].fecha}

\* Movement.findOne({user_id, fecha: {$gt: fecha}}).sort({fecha: 1})
nextMovement(ms, userId, fecha) ==
    LET after == {i \in 1..Len(ms) : ms[i].user_id = userId /\ ms[i].fecha > fecha}
    IN  IF after = {} THEN {0}
        ELSE {i \in after : \A j \in after : ms[j].fecha >= ms[i].fecha}

\* lines 474-554: 400 for an id that is no ObjectId, 404 when the owner has no
\* such document, else the document with its neighbours in date order
getMovementById(userId, movementId) ==
    /\ LET found == findOne(movements, movementId, userId)
           answer(status, code) ==
               [NoReply EXCEPT !.op = "getMovementById", !.userId = userId,
                               !.movementId = movementId,
                               !.status = status, !.code = code]
       IN  IF movementId = 0
           THEN reply' = answer(400, "INVALID_MOVEMENT_ID")
           ELSE IF found = 0
           THEN reply' = answer(404, "MOVEMENT_NOT_FOUND")
           ELSE \E previous \in previousMovement(movements, userId, movements[found].fecha),
                   next \in nextMovement(movements, userId, movements[found].fecha) :
                  reply' = [answer(200, "") EXCEPT !.movements = {found},
                                                   !.previous = previous,
                                                   !.next = next]
    /\ UNCHANGED <<now, users, movements, slot>>

\* ------------------------------------------------ the methods of a movement

\* the answer of a method of the document movementId: error is "" when its
\* save() resolved, "Error" when the method threw, "ValidationError" when
\* save() rejected
methodAnswer(op, movementId, error) ==
    [NoReply EXCEPT !.op = op, !.movementId = movementId, !.code = error]

\* this.save() of the stored document movementId changed to doc, inside the
\* method op: validators, pre-save hook, write, post-save hook
save(op, movementId, doc) ==
    IF SchemaErrors(doc) /= {}
    THEN /\ reply' = methodAnswer(op, movementId, "ValidationError")
         /\ UNCHANGED <<users, movements>>
    ELSE LET saved == preSave(doc, FALSE, doc /= movements[movementId])
         IN  /\ movements' = [movements EXCEPT ![movementId] = saved]
             /\ users' = postSave(users, saved)
             /\ reply' = methodAnswer(op, movementId, "")

\* the method op throws before it changes anything
throw(op, movementId) ==
    /\ reply' = methodAnswer(op, movementId, "Error")
    /\ UNCHANGED <<users, movements>>

\* the document movementId can be loaded and its owner's saves are below the cap
loaded(movementId) ==
    /\ movementId \in 1..Len(movements)
    /\ movements[movementId].user_id \in Registered
         => Resaves(movements[movementId].user_id) < MaxSaves

\* puedeCompletar with "completado" taken for a state that can be left
puedeCompletarUnlessCancelled(doc) == doc.estado /= "cancelado"

\* movementSchema.methods.puedeCompletar
puedeCompletar(doc) == doc.estado \in {"iniciado", "en_progreso", "pausado"}

\* movementSchema.methods.completar(endLocation): NoLoc is no endLocation.
\* observaciones are not part of the documents of the model.
completar(movementId, endLocation) ==
    /\ loaded(movementId)
    /\ LET doc == movements[movementId]
           ended == [doc EXCEPT !.estado = "completado", !.fecha_fin = now,
                                !.end_location = IF endLocation.present
                                                 THEN endLocation ELSE @]
       IN  IF ~puedeCompletar(doc)
           THEN throw("completar", movementId)
           ELSE save("completar", movementId,
                     [ended EXCEPT !.tiempo_total = calcularDuracion(ended)])
    /\ UNCHANGED <<now, slot>>

\* movementSchema.methods.pausar
pausar(movementId) ==
    /\ loaded(movementId)
    /\ LET doc == movements[movementId]
       IN  IF doc.estado \notin {"iniciado", "en_progreso"}
           THEN throw("pausar", movementId)
           ELSE save("pausar", movementId, [doc EXCEPT !.estado = "pausado"])
    /\ UNCHANGED <<now, slot>>

\* movementSchema.methods.reanudar
reanudar(movementId) ==
    /\ loaded(movementId)
    /\ LET doc == movements[movementId]
       IN  IF doc.estado /= "pausado"
           THEN throw("reanudar", movementId)
           ELSE save("reanudar", movementId, [doc EXCEPT !.estado = "en_progreso"])
    /\ UNCHANGED <<now, slot>>

\* movementSchema.methods.cancelar
cancelar(movementId) ==
    /\ loaded(movementId)
    /\ LET doc == movements[movementId]
       IN  IF ~puedeCompletar(doc)
           THEN throw("cancelar", movementId)
           ELSE save("cancelar", movementId,
                     [doc EXCEPT !.estado = "cancelado", !.fecha_fin = now])
    /\ UNCHANGED <<now, slot>>

\* --------------------------------------------------------- toggleUserStatus

\* adminController.toggleUserStatus: an administrator sets user.activo; a
\* deactivation empties the user's refresh tokens
toggleUserStatus(userId, activo) ==
    /\ userId \in DOMAIN users
    /\ users' = [users EXCEPT ![userId].activo = activo,
                              ![userId].refreshTokens = IF activo THEN @ ELSE <<>>]
    /\ UNCHANGED <<now, movements, slot, reply>>

\* ------------------------------------------------------------- the sessions

\* the refresh token generateSecureTokens signs for a user at instant t: a
\* function of the user and of iat, so two of one user and one instant are
\* the same string (the role and the e-mail of a user do not change here)
generateSecureTokens(userId, t) == [userId |-> userId, iat |-> t]

\* a string that is no token signed with the refresh secret
Forged == [userId |-> NoUser, iat |-> -1]

\* the life of a refresh token and of a stored session: 7 days
SevenDays == 7 * TicksPerDay

\* jwt.verify(refresh_token, refreshSecret): signed by this program and not
\* expired
verify(refresh_token, t) ==
    /\ refresh_token /= Forged
    /\ t < refresh_token.iat + SevenDays

\* the tokens of a stored list
Tokens(refreshTokens) == {refreshTokens[i].token : i \in 1..Len(refreshTokens)}

\* userSchema.pre('save'): sessions created more than 7 days ago are dropped
userPreSave(refreshTokens, t) ==
    SelectSeq(refreshTokens, LAMBDA tokenObj : tokenObj.createdAt > t - SevenDays)

\* the last n elements of a sequence
slice(seq, n) ==
    IF Len(seq) <= n THEN seq ELSE SubSeq(seq, Len(seq) - n + 1, Len(seq))

\* the answer of login or refresh
sessionAnswer(op, userId, refresh_token, status, code, refreshToken) ==
    [NoReply EXCEPT !.op = op, !.userId = userId, !.status = status, !.code = code,
                    !.refresh_token = refresh_token, !.refreshToken = refreshToken]

\* login of userId with a right or a wrong password: 401 for an unknown user
\* or a wrong password, 403 for an inactive user; otherwise a refresh token
\* is issued and stored with the recent ones, the last 5 kept
login(userId, isValidPassword) ==
    /\ userId \in DOMAIN users => Len(users[userId].refreshTokens) < MaxHeld
    /\ IF userId \notin DOMAIN users \/ ~isValidPassword
       THEN /\ reply' = sessionAnswer("login", userId, NoToken, 401,
                                      "INVALID_CREDENTIALS", NoToken)
            /\ UNCHANGED users
       ELSE IF ~users[userId].activo
       THEN /\ reply' = sessionAnswer("login", userId, NoToken, 403,
                                      "ACCOUNT_DISABLED", NoToken)
            /\ UNCHANGED users
       ELSE LET refreshToken == generateSecureTokens(userId, now)
                recent == userPreSave(users[userId].refreshTokens, now)
                pushed == Append(recent, [token |-> refreshToken, createdAt |-> now])
            IN  /\ users' = [users EXCEPT ![userId].refreshTokens =
                                userPreSave(slice(pushed, MaxRefreshTokens), now)]
                /\ reply' = sessionAnswer("login", userId, NoToken, 200, "",
                                          refreshToken)
    /\ UNCHANGED <<now, movements, slot>>

\* the stored list after a refresh that keeps the presented token
rotatedKeepingOld(refreshTokens, refresh_token, newRefreshToken, t) ==
    Append(refreshTokens, [token |-> newRefreshToken, createdAt |-> t])

\* the stored list after a refresh: the presented token is filtered out and
\* the new one pushed
rotated(refreshTokens, refresh_token, newRefreshToken, t) ==
    Append(SelectSeq(refreshTokens, LAMBDA tokenObj : tokenObj.token /= refresh_token),
           [token |-> newRefreshToken, createdAt |-> t])

\* refresh of the token refresh_token: 401 when it does not verify, when its
\* user is absent or inactive, or when it is not in the user's stored list;
\* otherwise the list is rotated and saved.  The user document is read and
\* saved as one step: its save sets the whole refreshTokens array, a write
\* Mongoose guards with the document's version key, so a save of a document
\* that another save has overtaken is rejected (conflict) and answered 500.
refresh(refresh_token, conflict) ==
    /\ LET userId == refresh_token.userId
           answer(status, code, refreshToken) ==
               sessionAnswer("refresh", userId, refresh_token, status, code,
                             refreshToken)
       IN  IF ~verify(refresh_token, now)
           THEN /\ reply' = answer(401, "INVALID_REFRESH_TOKEN", NoToken)
                /\ UNCHANGED users
           ELSE IF userId \notin DOMAIN users \/ ~users[userId].activo
           THEN /\ reply' = answer(401, "INVALID_USER", NoToken)
                /\ UNCHANGED users
           ELSE IF refresh_token \notin Tokens(users[userId].refreshTokens)
           THEN /\ reply' = answer(401, "UNAUTHORIZED_REFRESH_TOKEN", NoToken)
                /\ UNCHANGED users
           ELSE IF conflict
           THEN /\ reply' = answer(500, "REFRESH_ERROR", NoToken)
                /\ UNCHANGED users
           ELSE LET newRefreshToken == generateSecureTokens(userId, now)
                IN  /\ users' = [users EXCEPT ![userId].refreshTokens =
                                    userPreSave(rotated(@, refresh_token,
                                                        newRefreshToken, now), now)]
                    /\ reply' = answer(200, "", newRefreshToken)
    /\ UNCHANGED <<now, movements, slot>>

\* the clock advances
tick ==
    /\ now < Now0 + MaxElapsed
    /\ now' = now + 1
    /\ UNCHANGED <<users, movements, slot, reply>>

\* ------------------------------------------------------------ specification

\* the answers of deleteMovement are not observed here
Next ==
    \/ \E r \in Reqs, userId \in UserIds :
         \E body \in Submissions(now) : registerMovement(r, userId, body)
    \/ \E r \in Reqs : registerMovement_findUser(r)
    \/ \E r \in Reqs : registerMovement_count(r)
    \/ \E r \in Reqs : registerMovement_save(r)
    \/ \E r \in Reqs : registerMovement_end(r)
    \/ \E userId \in UserIds, movementId \in 0..(Len(movements) + 1) :
         deleteMovement(userId, movementId) /\ UNCHANGED reply
    \/ \E userId \in Registered, activo \in BOOLEAN : toggleUserStatus(userId, activo)

Spec == Init /\ [][Next]_vars

\* requests of one process that never overlap: a single slot serves them, each
\* finishing before the next starts
NextSeq ==
    \/ \E userId \in UserIds :
         \E body \in Submissions(now) : registerMovement("r1", userId, body)
    \/ registerMovement_findUser("r1")
    \/ registerMovement_count("r1")
    \/ registerMovement_save("r1")
    \/ registerMovement_end("r1")
    \/ \E userId \in UserIds, movementId \in 0..(Len(movements) + 1) :
         deleteMovement(userId, movementId) /\ UNCHANGED reply
    \/ \E userId \in Registered, activo \in BOOLEAN : toggleUserStatus(userId, activo)

SpecSeq == Init /\ [][NextSeq]_vars

\* one request at a time, its body drawn from FieldCases: the field rules and
\* the enrichment on every combination of field values
NextFields ==
    \/ /\ slot["r1"].pc = "idle"
       /\ \E userId \in UserIds :
            \E body \in FieldCases(now) : registerMovement("r1", userId, body)
    \/ registerMovement_findUser("r1")
    \/ registerMovement_count("r1")
    \/ registerMovement_save("r1")
    \/ registerMovement_end("r1")

SpecFields == Init /\ [][NextFields]_vars

\* the movement core with the answers of deleteMovement and of the two reads
\* observed: one registerMovement at a time, deletions and reads by any user
NextStore ==
    \/ \E userId \in UserIds :
         \E body \in StoreSubmissions(now) : registerMovement("r1", userId, body)
    \/ registerMovement_findUser("r1")
    \/ registerMovement_count("r1")
    \/ registerMovement_save("r1")
    \/ registerMovement_end("r1")
    \/ \E userId \in UserIds, movementId \in 0..(Len(movements) + 1) :
         deleteMovement_answered(userId, movementId)
    \/ \E userId \in UserIds, startDate \in {0, startOfDay(now)} :
         getUserMovements(userId, startDate)
    \/ \E userId \in UserIds, movementId \in 0..(Len(movements) + 1) :
         getMovementById(userId, movementId)

SpecStore == Init /\ [][NextStore]_vars

\* registerMovement, two at a time, on a store whose count and insert may
\* reject (the other specifications are of a store that answers every call)
NextFaults ==
    \/ \E r \in Reqs, userId \in UserIds :
         \E body \in Submissions(now) : registerMovement(r, userId, body)
    \/ \E r \in Reqs : registerMovement_findUser(r)
    \/ \E r \in Reqs, rejects \in BOOLEAN : registerMovement_countOnStore(r, rejects)
    \/ \E r \in Reqs, rejects \in BOOLEAN : registerMovement_saveOnStore(r, rejects)
    \/ \E r \in Reqs : registerMovement_end(r)

SpecFaults == Init /\ [][NextFaults]_vars

\* one request at a time between the points of GeoCases
NextGeo ==
    \/ /\ slot["r1"].pc = "idle"
       /\ \E userId \in UserIds :
            \E body \in GeoCases(now) : registerMovement("r1", userId, body)
    \/ registerMovement_findUser("r1")
    \/ registerMovement_count("r1")
    \/ registerMovement_save("r1")
    \/ registerMovement_end("r1")

SpecGeo == Init /\ [][NextGeo]_vars

\* the state after construction with the stored documents in any estado
InitEstado ==
    /\ now = Now0
    /\ \E k \in 0..maxMovementsPerDay :
         /\ \E estados \in [1..Len(SeedStore(k)) -> Estados] :
              movements = [i \in 1..Len(SeedStore(k)) |->
                             [SeedStore(k)[i] EXCEPT !.estado = estados[i]]]
         /\ users = [u \in Registered |->
                       [activo |-> TRUE, refreshTokens |-> <<>>,
                        totalMovimientos |->
                          Cardinality({i \in 1..Len(SeedStore(k)) :
                                         SeedStore(k)[i].user_id = u})]]
    /\ slot = [r \in Reqs |-> Idle]
    /\ reply = NoReply

\* the methods of the stored documents, each on a freshly loaded document
NextEstado ==
    \/ \E movementId \in 1..Len(movements), endLocation \in {NoLoc, P3} :
         completar(movementId, endLocation)
    \/ \E movementId \in 1..Len(movements) : pausar(movementId)
    \/ \E movementId \in 1..Len(movements) : reanudar(movementId)
    \/ \E movementId \in 1..Len(movements) : cancelar(movementId)

SpecEstado == InitEstado /\ [][NextEstado]_vars

\* the refresh tokens that verify at instant t, and a forged one
Presented(t) ==
    { generateSecureTokens(userId, iat) : userId \in UserIds, iat \in Now0..t }
      \cup {Forged}

\* the sessions: logins and refreshes of any user, an administrator switching
\* users off and on, and the clock
NextSessions ==
    \/ \E userId \in UserIds, isValidPassword \in BOOLEAN :
         login(userId, isValidPassword)
    \/ \E refresh_token \in Presented(now), conflict \in BOOLEAN :
         refresh(refresh_token, conflict)
    \/ \E userId \in Registered, activo \in BOOLEAN : toggleUserStatus(userId, activo)
    \/ tick

SpecSessions == Init /\ [][NextSessions]_vars

\* =================================================================== claims

\* the documents of userId dated in the calendar day of instant t
TodayOf(userId, t) ==
    {i \in 1..Len(movements) :
       /\ movements[i].user_id = userId
       /\ movements[i].fecha >= startOfDay(t)
       /\ movements[i].fecha <= endOfDay(t)}

\* the slot got past the quota check: its document was built and save() called
PassedQuota(r) == slot[r].movement /= NoMovement

\* C1: two requests of one user that interleave can both read the day count
\* limit-1, both pass the check and both insert, so that the user ends with
\* more than `limit` documents dated in the current day.  Stated on the final
\* states of such a pair: both passed the check on the count limit-1 and both
\* were answered, hence the user's day count is above the limit.
C1_BothInsertOverQuota ==
    \A r1, r2 \in Reqs :
       ( /\ r1 /= r2
         /\ slot[r1].pc = "done" /\ slot[r2].pc = "done"
         /\ slot[r1].userId = slot[r2].userId
         /\ PassedQuota(r1) /\ PassedQuota(r2)
         /\ slot[r1].movementsToday = maxMovementsPerDay - 1
         /\ slot[r2].movementsToday = maxMovementsPerDay - 1 )
       => Cardinality(TodayOf(slot[r1].userId, now)) > maxMovementsPerDay

\* C2: when the requests of a user never overlap, a submission is allowed
\* exactly when the count read is below the limit, and the number of the
\* user's documents dated in the current day never exceeds the limit: when
\* save() is called the count read is still the user's day count, and one
\* more document keeps it within the limit.
C2_SequentialWithinQuota ==
    /\ \A r \in Reqs :
         /\ PassedQuota(r) => slot[r].movementsToday < maxMovementsPerDay
         /\ (slot[r].movementsToday >= 0 /\ ~PassedQuota(r))
              => ( /\ slot[r].movementsToday >= maxMovementsPerDay
                   /\ slot[r].res.status = 429 )
    /\ \A r \in Reqs :
         slot[r].pc = "save"
           => ( /\ slot[r].movementsToday = Cardinality(TodayOf(slot[r].userId, now))
                /\ Cardinality(TodayOf(slot[r].userId, now)) + 1 <= maxMovementsPerDay )
    /\ \A userId \in UserIds :
         Cardinality(TodayOf(userId, now)) <= maxMovementsPerDay

\* a request that read the count limit-1 and was allowed
C2_Witness ==
    /\ slot["r1"].pc = "save"
    /\ slot["r1"].movementsToday = maxMovementsPerDay - 1
    /\ Cardinality(TodayOf(slot["r1"].userId, now)) = maxMovementsPerDay - 1

\* C3: for a user who already has `limit` documents dated in the current
\* day, the quota check of a well-formed submission answers 429
\* DAILY_LIMIT_EXCEEDED with currentCount = the count read and limit = the
\* configured limit, and inserts nothing.
C3_QuotaExceededRejected ==
    [][ \A r \in Reqs :
          ( /\ slot[r].pc = "countDocuments"
            /\ slot'[r].pc /= "countDocuments"
            /\ Cardinality(TodayOf(slot[r].userId, now)) >= maxMovementsPerDay )
          => ( /\ slot'[r].pc = "done"
               /\ slot'[r].res.status = 429
               /\ slot'[r].res.code = "DAILY_LIMIT_EXCEEDED"
               /\ slot'[r].res.currentCount = Cardinality(TodayOf(slot[r].userId, now))
               /\ slot'[r].res.limit = maxMovementsPerDay
               /\ slot'[r].movement = NoMovement
               /\ movements' = movements ) ]_vars

\* a submission refused at the quota check with the count equal to the limit
C3_Witness ==
    \E r \in Reqs :
       /\ slot[r].pc = "done"
       /\ slot[r].res.status = 429
       /\ slot[r].res.currentCount = maxMovementsPerDay
       /\ Cardinality(TodayOf(slot[r].userId, now)) = maxMovementsPerDay

\* the documents of userId dated in the day of t that are not soft-deleted
LiveTodayOf(userId, t) == {i \in TodayOf(userId, t) : ~movements[i].deleted}

\* C4: the day count read by the quota check counts only the documents that
\* are not soft-deleted.
C4_CountSkipsDeleted ==
    [][ \A r \in Reqs :
          (slot[r].pc = "countDocuments" /\ slot'[r].pc /= "countDocuments")
          => slot'[r].movementsToday = Cardinality(LiveTodayOf(slot[r].userId, now)) ]_vars

\* C5: a submission that passes every field rule, comes from an existing
\* active user and finds the count below the limit is persisted and answered
\* with 201.
C5_AcceptedIsPersisted ==
    \A r \in Reqs :
       ( /\ slot[r].pc = "done"
         /\ slot[r].user = "active"
         /\ slot[r].movementsToday >= 0
         /\ slot[r].movementsToday < maxMovementsPerDay )
       => ( /\ slot[r].res.status = 201
            /\ \E i \in 1..Len(movements) : movements[i] = slot[r].movement )

\* two bodies that differ in nothing but the claimed distance
SameButDistance(b1, b2) ==
    /\ b1 /= b2
    /\ [b1 EXCEPT !.distancia_recorrida = 0] = [b2 EXCEPT !.distancia_recorrida = 0]

\* what a request read of the store agrees with what the other read (a read
\* that a request did not reach agrees with anything)
SameReads(r1, r2) ==
    /\ slot[r1].user = slot[r2].user
         \/ slot[r1].user = "unread" \/ slot[r2].user = "unread"
    /\ slot[r1].movementsToday = slot[r2].movementsToday
         \/ slot[r1].movementsToday = -1 \/ slot[r2].movementsToday = -1

\* C6: the distance discrepancy never influences the outcome: two requests
\* of one user whose bodies differ only in the claimed distance (both within
\* (0, 1000] km) and that read the same of the store get the same answer.
C6_DiscrepancyIsInformational ==
    \A r1, r2 \in Reqs :
       ( /\ slot[r1].pc = "done" /\ slot[r2].pc = "done"
         /\ slot[r1].userId = slot[r2].userId
         /\ SameButDistance(slot[r1].body, slot[r2].body)
         /\ slot[r1].body.distancia_recorrida > 0
         /\ slot[r1].body.distancia_recorrida <= 1000000
         /\ slot[r2].body.distancia_recorrida > 0
         /\ slot[r2].body.distancia_recorrida <= 1000000
         /\ SameReads(r1, r2) )
       => ( /\ slot[r1].res.status = slot[r2].res.status
            /\ slot[r1].res.code = slot[r2].res.code )

\* two answered requests past the coherence check, one within the tolerance
\* and one beyond it
C6_Witness ==
    \E r1, r2 \in Reqs :
       /\ slot[r1].pc = "done" /\ slot[r2].pc = "done"
       /\ slot[r1].userId = slot[r2].userId
       /\ SameButDistance(slot[r1].body, slot[r2].body)
       /\ slot[r1].user = "active" /\ slot[r2].user = "active"
       /\ slot[r1].movementsToday = slot[r2].movementsToday
       /\ PassedQuota(r1) /\ PassedQuota(r2)
       /\ Abs(slot[r1].calculatedDistance - slot[r1].body.distancia_recorrida)
            <= distanceTolerance
       /\ Abs(slot[r2].calculatedDistance - slot[r2].body.distancia_recorrida)
            > distanceTolerance

\* the field rules of the data model (spec section 4.2) that a body of the
\* model can break: a coordinate out of the globe, a maximum speed below the
\* average speed
BreaksFieldRule(body) ==
    \/ ~body.start_location.present
    \/ body.start_location.latitude < -90000000
    \/ body.start_location.latitude > 90000000
    \/ ~body.end_location.present
    \/ body.end_location.latitude < -90000000
    \/ body.end_location.latitude > 90000000
    \/ body.velocidad_maxima < body.velocidad_promedio

\* C7: a submission that fails a field rule is answered with 400 and a
\* non-empty field-to-message map, and is never partially applied: the
\* collections are left as they were and the request goes no further.
C7_ValidationFailureNotApplied ==
    [][ \A r \in Reqs :
          /\ ( /\ slot[r].pc = "idle" /\ slot'[r].pc /= "idle"
               /\ BreaksFieldRule(slot'[r].body) )
             => ( /\ slot'[r].pc = "done"
                  /\ slot'[r].res.status = 400
                  /\ slot'[r].res.code = "MOVEMENT_VALIDATION_ERROR"
                  /\ slot'[r].res.errors /= {}
                  /\ movements' = movements /\ users' = users )
          /\ ( /\ slot[r].pc = "done"
               /\ slot[r].res.code = "MOVEMENT_VALIDATION_ERROR" )
             => ( /\ slot[r].user = "unread" /\ slot[r].movementsToday = -1
                  /\ slot[r].movement = NoMovement
                  /\ slot'[r].pc \in {"done", "idle"}
                  /\ (slot'[r] /= slot[r] => movements' = movements) ) ]_vars

\* a submission refused for its maximum speed alone
C7_Witness ==
    \E r \in Reqs :
       /\ slot[r].pc = "done"
       /\ slot[r].res.status = 400
       /\ slot[r].res.errors = {<<"velocidad_maxima", "below_average">>}

\* C8 as stated: every submission by a user who is absent from the user
\* directory is answered with 403 USER_NOT_AUTHORIZED, whatever its fields.
C8_UnauthorizedWhateverFields ==
    \A r \in Reqs :
       (slot[r].pc = "done" /\ slot[r].userId \notin DOMAIN users)
       => ( /\ slot[r].res.status = 403
            /\ slot[r].res.code = "USER_NOT_AUTHORIZED" )

\* C8 amended: a submission whose fields pass the field rules and whose user
\* is absent or inactive when looked up is answered with 403
\* USER_NOT_AUTHORIZED; one whose fields fail is answered with 400 before the
\* user is looked up; either way the request counts nothing, builds no
\* document and leaves the collection as it was.
C8_UnauthorizedAfterValidation ==
    [][ \A r \in Reqs :
          /\ ( /\ slot[r].pc = "findUser" /\ slot'[r].pc /= "findUser"
               /\ \/ slot[r].userId \notin DOMAIN users
                  \/ ~users[slot[r].userId].activo )
             => ( /\ slot'[r].pc = "done"
                  /\ slot'[r].res.status = 403
                  /\ slot'[r].res.code = "USER_NOT_AUTHORIZED"
                  /\ movements' = movements )
          /\ (slot[r].pc = "done" /\ slot[r].userId \notin DOMAIN users)
             => ( /\ BreaksFieldRule(slot[r].body) => slot[r].res.status = 400
                  /\ ~BreaksFieldRule(slot[r].body) => slot[r].res.status = 403 )
          /\ (slot[r].pc = "done" /\ slot[r].res.status = 403)
             => ( /\ slot[r].movementsToday = -1
                  /\ slot[r].movement = NoMovement
                  /\ slot'[r].pc \in {"done", "idle"} )
          /\ \A i \in 1..Len(movements') : movements'[i].user_id \in DOMAIN users ]_vars

\* an inactive user and an absent user, both refused with 403
C8_Witness ==
    \E r1, r2 \in Reqs :
       /\ slot[r1].pc = "done" /\ slot[r1].user = "inactive"
       /\ slot[r1].res.status = 403
       /\ slot[r2].pc = "done" /\ slot[r2].user = "absent"
       /\ slot[r2].res.status = 403

\* the stages a request goes through, in the order of the code: received ->
\* field-validated and coherence-checked ("findUser") -> user checked
\* ("countDocuments") -> quota-checked and enriched ("save") -> answered
StageOrder(from, to, res) ==
    \/ to = from
    \/ from = "idle" /\ to = "findUser"
    \/ from = "idle" /\ to = "done" /\ res.code = "MOVEMENT_VALIDATION_ERROR"
    \/ from = "findUser" /\ to = "countDocuments"
    \/ from = "findUser" /\ to = "done" /\ res.code = "USER_NOT_AUTHORIZED"
    \/ from = "countDocuments" /\ to = "save"
    \/ from = "countDocuments" /\ to = "done" /\ res.code = "DAILY_LIMIT_EXCEEDED"
    \/ from = "save" /\ to = "done" /\ res.status \in {201, 400}
    \/ from = "done" /\ to = "idle"

\* C9: a submission goes through the stages in a fixed order; a rejection is
\* terminal; a submission gets exactly one response, given when it ends; the
\* insert is attempted at most once, by the save stage and by nothing else.
C9_StagesInOrderOneResponse ==
    [][ \A r \in Reqs :
          /\ StageOrder(slot[r].pc, slot'[r].pc, slot'[r].res)
          /\ (slot[r].pc /= "done") => (slot[r].res = NoResponse)
          /\ (slot'[r].pc = "done") => (slot'[r].res.status /= 0)
          /\ (slot[r].pc = "done" /\ slot'[r].pc = "done") => (slot'[r].res = slot[r].res)
          /\ (slot[r].pc /= "done" /\ slot'[r].pc = "done" /\ slot'[r].res.status /= 201)
               => movements' = movements
          /\ (slot[r].pc /= "save" /\ slot'[r] /= slot[r])
               => Len(movements') = Len(movements) ]_vars

\* a submission that went through every stage and was answered
C9_Witness ==
    \E r \in Reqs :
       /\ slot[r].pc = "done"
       /\ slot[r].user = "active"
       /\ slot[r].movementsToday >= 0
       /\ PassedQuota(r)
       /\ slot[r].res.status /= 0

\* C10: in every document of the collection, and in every document that
\* registerMovement builds to save, the maximum speed is not below the
\* average speed.
C10_MaxSpeedNotBelowAverage ==
    /\ \A i \in 1..Len(movements) :
         movements[i].velocidad_maxima >= movements[i].velocidad_promedio
    /\ \A r \in Reqs :
         PassedQuota(r) =>
           slot[r].movement.velocidad_maxima >= slot[r].movement.velocidad_promedio

\* a built document whose speeds differ in the body and are equal once
\* rounded to one decimal, with a document saved again by deleteMovement
C10_Witness ==
    /\ \E r \in Reqs :
         /\ PassedQuota(r)
         /\ slot[r].body.velocidad_maxima > slot[r].body.velocidad_promedio
         /\ slot[r].movement.velocidad_maxima = slot[r].movement.velocidad_promedio
    /\ \E i \in 1..Len(movements) : movements[i].deleted /\ movements[i].version > 1

\* the fields named by an error map
ErrorKeys(errors) == {e[1] : e \in errors}

\* C11: every submission whose maximum speed is below its average speed is
\* answered at once with 400 and an error on velocidad_maxima, and no document
\* is built for it; a document that is built carries the two speeds as
\* submitted (rounded to one decimal), never swapped or clamped.
C11_MaxSpeedBelowAverageReported ==
    [][ \A r \in Reqs :
          /\ ( /\ slot[r].pc = "idle" /\ slot'[r].pc /= "idle"
               /\ slot'[r].body.velocidad_maxima < slot'[r].body.velocidad_promedio )
             => ( /\ slot'[r].pc = "done"
                  /\ slot'[r].res.status = 400
                  /\ slot'[r].res.code = "MOVEMENT_VALIDATION_ERROR"
                  /\ "velocidad_maxima" \in ErrorKeys(slot'[r].res.errors)
                  /\ slot'[r].movement = NoMovement
                  /\ movements' = movements )
          /\ slot'[r].movement /= NoMovement
             => ( /\ slot'[r].body.velocidad_maxima >= slot'[r].body.velocidad_promedio
                  /\ Abs(slot'[r].movement.velocidad_maxima
                            - slot'[r].body.velocidad_maxima) <= 5
                  /\ Abs(slot'[r].movement.velocidad_promedio
                            - slot'[r].body.velocidad_promedio) <= 5 ) ]_vars

\* a maximum speed inside (0, 300] and below the average speed, refused on
\* velocidad_maxima
C11_Witness ==
    \E r \in Reqs :
       /\ slot[r].pc = "done"
       /\ slot[r].body.velocidad_maxima = 4
       /\ slot[r].body.velocidad_promedio = 3000
       /\ slot[r].res.status = 400
       /\ "velocidad_maxima" \in ErrorKeys(slot[r].res.errors)
       /\ slot[r].movement = NoMovement

\* the data-model ranges of the stored values of a document
InDataModelRanges(doc) ==
    /\ doc.distancia_recorrida > 0 /\ doc.distancia_recorrida <= 1000000
    /\ doc.velocidad_promedio > 0 /\ doc.velocidad_promedio <= 20000
    /\ doc.velocidad_maxima > 0 /\ doc.velocidad_maxima <= 30000
    /\ doc.tiempo_total > 0 /\ doc.tiempo_total <= 14400

C13_DateWindow ==
    [][ \A r \in Reqs :
          (slot[r].pc = "idle" /\ slot'[r].pc /= "idle")
          => LET fecha == slot'[r].body.fecha
             IN  /\ (fecha > now \/ fecha < now - 7 * TicksPerDay)
                      => ( /\ slot'[r].pc = "done"
                           /\ slot'[r].res.status = 400
                           /\ "fecha" \in ErrorKeys(slot'[r].res.errors) )
                 /\ (fecha >= now - 7 * TicksPerDay /\ fecha <= now)
                      => "fecha" \notin ErrorKeys(slot'[r].res.errors) ]_vars

\* a submission refused for nothing but its date, one tick beyond 7 days old
C13_Witness ==
    \E r \in Reqs :
       /\ slot[r].pc = "done"
       /\ slot[r].body.fecha = now - 7 * TicksPerDay - 1
       /\ slot[r].res.status = 400
       /\ ErrorKeys(slot[r].res.errors) = {"fecha"}

\* a location that breaks the coordinate rule
BadCoordinates(location) ==
    \/ ~location.present
    \/ location.latitude < -90000000 \/ location.latitude > 90000000
    \/ location.longitude < -180000000 \/ location.longitude > 180000000

\* the fields of a body that break one of their rules at instant t
Violations(body, t) ==
    (IF BadCoordinates(body.start_location) THEN {"start_location"} ELSE {})
    \cup (IF BadCoordinates(body.end_location) THEN {"end_location"} ELSE {})
    \cup (IF body.distancia_recorrida <= 0 \/ body.distancia_recorrida > 1000000
          THEN {"distancia_recorrida"} ELSE {})
    \cup (IF body.velocidad_promedio <= 0 \/ body.velocidad_promedio > 20000
          THEN {"velocidad_promedio"} ELSE {})
    \cup (IF \/ body.velocidad_maxima <= 0 \/ body.velocidad_maxima > 30000
             \/ body.velocidad_maxima < body.velocidad_promedio
          THEN {"velocidad_maxima"} ELSE {})
    \cup (IF body.tiempo_total <= 0 \/ body.tiempo_total > 14400
          THEN {"tiempo_total"} ELSE {})
    \cup (IF body.fecha < 0 \/ body.fecha > t \/ body.fecha < t - 7 * TicksPerDay
          THEN {"fecha"} ELSE {})
    \cup (IF length(trim(body.region)) < 2 \/ length(trim(body.region)) > 50
          THEN {"region"} ELSE {})

\* C14: the error map of a submission has a key for every field that breaks
\* one of its rules, whatever the other fields are; the submission is refused
\* exactly when some field breaks a rule.
C14_EveryViolationReported ==
    [][ \A r \in Reqs :
          (slot[r].pc = "idle" /\ slot'[r].pc /= "idle")
          => /\ Violations(slot'[r].body, now) \subseteq ErrorKeys(slot'[r].res.errors)
             /\ (Violations(slot'[r].body, now) /= {})
                  <=> (slot'[r].pc = "done" /\ slot'[r].res.status = 400) ]_vars

\* a submission with all eight fields in violation, all eight reported
C14_Witness ==
    \E r \in Reqs :
       /\ slot[r].pc = "done"
       /\ Cardinality(Violations(slot[r].body, now)) = 8
       /\ ErrorKeys(slot[r].res.errors) = Violations(slot[r].body, now)

\* a step of deleteMovement in a behaviour that observes its answers: the
\* answer is deleteMovement's and no registerMovement call moves
DeleteStep == reply'.op = "deleteMovement" /\ slot' = slot

\* a document without its soft-delete attributes
WithoutSoftDelete(doc) ==
    [doc EXCEPT !.deleted = FALSE, !.deletedAt = 0, !.deletedBy = NoUser]

\* a document without its soft-delete attributes and its audit version
WithoutSoftDeleteAndAudit(doc) == [WithoutSoftDelete(doc) EXCEPT !.version = 0]

\* C15 as stated: a deleteMovement by the owner changes nothing of the record
\* but deleted, deletedAt and deletedBy, and nothing of any other record.
C15_DeleteChangesOnlySoftDelete ==
    [][ (DeleteStep /\ reply'.status = 200)
        => /\ Len(movements') = Len(movements)
           /\ \A i \in 1..Len(movements) :
                WithoutSoftDelete(movements'[i]) = WithoutSoftDelete(movements[i])
           /\ \A i \in 1..Len(movements) :
                i /= reply'.movementId => movements'[i] = movements[i] ]_vars

\* C15 amended: a deleteMovement by the owner sets deleted, deletedAt and
\* deletedBy of the record and, when that changes any of the three, raises its
\* audit version by one (a repeated deletion at the same instant changes
\* nothing); every other field of the record, and every other record, is left
\* unchanged.
C15_DeleteChangesSoftDeleteAndAudit ==
    [][ (DeleteStep /\ reply'.status = 200)
        => /\ Len(movements') = Len(movements)
           /\ reply'.movementId \in 1..Len(movements)
           /\ movements[reply'.movementId].user_id = reply'.userId
           /\ \A i \in 1..Len(movements) :
                IF i = reply'.movementId
                THEN /\ WithoutSoftDeleteAndAudit(movements'[i])
                          = WithoutSoftDeleteAndAudit(movements[i])
                     /\ movements'[i].deleted
                     /\ movements'[i].deletedAt = now
                     /\ movements'[i].deletedBy = reply'.userId
                     /\ movements'[i].version
                          = IF <<movements'[i].deleted, movements'[i].deletedAt,
                                 movements'[i].deletedBy>>
                                /= <<movements[i].deleted, movements[i].deletedAt,
                                     movements[i].deletedBy>>
                            THEN movements[i].version + 1
                            ELSE movements[i].version
                ELSE movements'[i] = movements[i] ]_vars

\* a record deleted by its owner beside a record of the same owner left alone
C15_Witness ==
    /\ reply.op = "deleteMovement" /\ reply.status = 200
    /\ reply.movementId \in 1..Len(movements)
    /\ movements[reply.movementId].deleted
    /\ movements[reply.movementId].version = 2
    /\ \E i \in 1..Len(movements) :
         /\ i /= reply.movementId
         /\ movements[i].user_id = reply.userId
         /\ ~movements[i].deleted /\ movements[i].version = 1

C17_NeverHardDeletes ==
    [][ /\ Len(movements') >= Len(movements)
        /\ \A i \in 1..Len(movements) :
             /\ movements'[i].user_id = movements[i].user_id
             /\ movements'[i].fecha = movements[i].fecha ]_vars

\* a record answered as deleted by deleteMovement and still in the collection,
\* still found by its owner afterwards
C17_Witness ==
    /\ reply.op = "getMovementById" /\ reply.status = 200
    /\ reply.movementId \in 1..Len(movements)
    /\ movements[reply.movementId].deleted
    /\ movements[reply.movementId].deletedBy = reply.userId

\* a step of a read in a behaviour that observes its answer: the answer is the
\* read's, and neither the collection nor a registerMovement call moves
ReadStep(op) == reply'.op = op /\ slot' = slot /\ movements' = movements

\* C18: a soft-deleted record is not returned to its owner: not in the page
\* of getUserMovements, not as the document of getMovementById, and not as the
\* previous or next neighbour of another record.
C18_DeletedIsHidden ==
    [][ /\ ReadStep("getUserMovements")
           => \A i \in reply'.movements : ~movements[i].deleted
        /\ (ReadStep("getMovementById") /\ reply'.status = 200)
           => ( /\ ~movements[reply'.movementId].deleted
                /\ reply'.previous /= 0 => ~movements[reply'.previous].deleted
                /\ reply'.next /= 0 => ~movements[reply'.next].deleted ) ]_vars

\* C19: a submission that passed the field rules, the user check and the
\* quota check is answered 201 with todayMovements = the count read + 1 and
\* remainingToday = limit - todayMovements >= 0; with no other request in
\* flight, todayMovements is the number of the user's documents dated in the
\* current day after the insert.
C19_AcceptedCarriesDayNumbers ==
    \A r \in Reqs :
       (slot[r].pc = "done" /\ PassedQuota(r))
       => ( /\ slot[r].res.status = 201
            /\ slot[r].res.todayMovements = slot[r].movementsToday + 1
            /\ slot[r].res.remainingToday
                 = maxMovementsPerDay - slot[r].res.todayMovements
            /\ slot[r].res.remainingToday >= 0
            /\ slot[r].body.fecha >= startOfDay(now)
                 => slot[r].res.todayMovements
                      = Cardinality(TodayOf(slot[r].userId, now)) )

\* the waypoints of a sequence that satisfy the coordinate rule, in order
RECURSIVE ValidWaypoints(_)
ValidWaypoints(waypoints) ==
    IF waypoints = <<>> THEN <<>>
    ELSE (IF BadCoordinates(Head(waypoints)) THEN <<>> ELSE <<Head(waypoints)>>)
         \o ValidWaypoints(Tail(waypoints))

\* two bodies that differ in nothing but their waypoints
SameButWaypoints(b1, b2) ==
    /\ b1 /= b2
    /\ [b1 EXCEPT !.waypoints = <<>>] = [b2 EXCEPT !.waypoints = <<>>]

\* the waypoints of every document registerMovement builds to save are the
\* submitted waypoints that satisfy the coordinate rule, in their order, and
\* two requests of one user whose bodies differ only in their waypoints and
\* that read the same of the store get the same answer
WaypointsFilteredAndIgnored ==
    /\ \A r \in Reqs :
         PassedQuota(r)
         => slot[r].movement.waypoints = ValidWaypoints(slot[r].body.waypoints)
    /\ \A r1, r2 \in Reqs :
         ( /\ slot[r1].pc = "done" /\ slot[r2].pc = "done"
           /\ slot[r1].userId = slot[r2].userId
           /\ SameButWaypoints(slot[r1].body, slot[r2].body)
           /\ SameReads(r1, r2) )
         => ( /\ slot[r1].res.status = slot[r2].res.status
              /\ slot[r1].res.code = slot[r2].res.code )

\* C20: invalid waypoints are dropped, not rejected: a submission that passed
\* the field rules, the user check and the quota check is persisted with, as
\* waypoints, the submitted waypoints that satisfy the coordinate rule of
\* start/end, in their order; and the waypoints of a submission never change
\* its answer.
C20_ValidWaypointsPersisted ==
    /\ WaypointsFilteredAndIgnored
    /\ \A r \in Reqs :
         (slot[r].pc = "done" /\ PassedQuota(r))
         => \E i \in 1..Len(movements) :
              /\ movements[i].user_id = slot[r].userId
              /\ movements[i].fecha = slot[r].body.fecha
              /\ movements[i].waypoints = ValidWaypoints(slot[r].body.waypoints)

\* the geodesic distance of the start and end coordinates of a body
GeodesicOf(body) ==
    calculateDistance(body.start_location.latitude, body.start_location.longitude,
                      body.end_location.latitude, body.end_location.longitude)

\* C21: the distancia_calculada of every document registerMovement builds to
\* save is the geodesic distance of the submitted start and end coordinates,
\* whatever the claimed distance and whatever distancia_calculada the body
\* carries; so it is the same for two bodies with the same coordinates.
C21_GeodesicRecomputed ==
    \A r \in Reqs :
       PassedQuota(r)
       => /\ slot[r].movement.distancia_calculada = GeodesicOf(slot[r].body)
          /\ slot[r].movement.distancia_calculada = slot[r].calculatedDistance

\* a document built for a body that supplies a distancia_calculada of its
\* own and claims a distance far from the geodesic one
C21_Witness ==
    \E r \in Reqs :
       /\ PassedQuota(r)
       /\ slot[r].body.distancia_calculada = 99999
       /\ slot[r].body.distancia_recorrida = 4
       /\ slot[r].movement.distancia_calculada = 15700

\* C22: the owner of every document registerMovement builds to save is the
\* authenticated user of the request, whatever user_id the body carries; a
\* record that enters the collection is owned by the user of a request in
\* flight; and no step changes the owner of a record of the collection.
C22_OwnerIsAuthenticatedAndFixed ==
    [][ /\ \A r \in Reqs :
             slot'[r].movement /= NoMovement
             => slot'[r].movement.user_id = slot'[r].userId
        /\ \A i \in 1..Len(movements') :
             IF i <= Len(movements)
             THEN movements'[i].user_id = movements[i].user_id
             ELSE \E r \in Reqs : /\ slot[r].pc /= "idle"
                                  /\ movements'[i].user_id = slot[r].userId ]_vars

\* a document built for u1 from a body that names u2 as its user_id, beside a
\* record that deleteMovement has saved again for its owner
C22_Witness ==
    /\ \E r \in Reqs :
         /\ PassedQuota(r)
         /\ slot[r].userId = "u1"
         /\ slot[r].body.user_id = "u2"
         /\ slot[r].movement.user_id = "u1"
    /\ \E i \in 1..Len(movements) :
         /\ movements[i].deleted /\ movements[i].version > 1
         /\ movements[i].user_id = "u1"

C26_QuotaOnTodayNotOnSubmissionDate ==
    [][ \A r \in Reqs :
          (slot[r].pc = "countDocuments" /\ slot'[r].pc /= "countDocuments")
          => LET today == Cardinality(TodayOf(slot[r].userId, now))
             IN  /\ slot'[r].movementsToday = today
                 /\ IF today >= maxMovementsPerDay
                    THEN /\ slot'[r].pc = "done"
                         /\ slot'[r].res.status = 429
                         /\ slot'[r].movement = NoMovement
                    ELSE /\ slot'[r].pc = "save"
                         /\ slot'[r].movement /= NoMovement
                         /\ slot'[r].movement.fecha = slot[r].body.fecha ]_vars

\* a submission dated seven days ago, a day on which its user has no
\* document, refused because the user is at the limit today
C26_Witness ==
    \E r \in Reqs :
       /\ slot[r].pc = "done"
       /\ slot[r].res.status = 429
       /\ slot[r].body.fecha < startOfDay(now)
       /\ Cardinality(TodayOf(slot[r].userId, slot[r].body.fecha)) = 0
       /\ Cardinality(TodayOf(slot[r].userId, now)) = maxMovementsPerDay

C28_CounterIsRecordCount ==
    \A u \in Registered :
       users[u].totalMovimientos
         = Cardinality({i \in 1..Len(movements) : movements[i].user_id = u})

\* the transitions of estado each method may make
Transitions(op) ==
    CASE op = "pausar" -> {"iniciado", "en_progreso"} \X {"pausado"}
      [] op = "reanudar" -> {"pausado"} \X {"en_progreso"}
      [] op = "completar" -> {"iniciado", "en_progreso", "pausado"} \X {"completado"}
      [] op = "cancelar" -> {"iniciado", "en_progreso", "pausado"} \X {"cancelado"}
      [] OTHER -> {}

\* C29: a step changes the estado of a record only by a method on that record
\* and along a transition of that method; a method called on a record whose
\* estado it cannot leave throws and changes nothing, which is the case of
\* every method on a completado or cancelado record.
C29_EstadoTransitions ==
    [][ /\ \A i \in 1..Len(movements) :
             movements'[i].estado /= movements[i].estado
             => /\ reply'.movementId = i
                /\ reply'.code = ""
                /\ <<movements[i].estado, movements'[i].estado>>
                     \in Transitions(reply'.op)
        /\ ( /\ reply'.op \in {"pausar", "reanudar", "completar", "cancelar"}
             /\ reply' /= reply
             /\ movements[reply'.movementId].estado
                  \notin {e[1] : e \in Transitions(reply'.op)} )
           => (reply'.code = "Error" /\ movements' = movements /\ users' = users)
        /\ \A i \in 1..Len(movements) :
             movements[i].estado \in {"completado", "cancelado"}
             => movements'[i].estado = movements[i].estado ]_vars

\* cancelar has thrown on a completado record, beside a record that reanudar
\* has put en_progreso
C29_Witness ==
    /\ reply.op = "cancelar" /\ reply.code = "Error"
    /\ reply.movementId \in 1..Len(movements)
    /\ movements[reply.movementId].estado = "completado"
    /\ \E i \in 1..Len(movements) :
         movements[i].estado = "en_progreso" /\ movements[i].version > 1

\* a step that answers a refresh
RefreshStep == reply'.op = "refresh" /\ reply' /= reply

\* C30: a refresh succeeds only for a token of the stored list of an active
\* user; it removes the presented token from the list and adds the newly
\* issued one, so unless that is the same token the presented one is no longer
\* stored; a refresh with a token that is not stored, or of an inactive user,
\* is answered 401 and changes nothing; and a token enters a stored list only
\* by being issued in a successful login or refresh.
C30_RefreshTokensSingleUse ==
    [][ /\ (RefreshStep /\ reply'.status = 200)
           => LET u == reply'.userId
                  T == reply'.refresh_token
                  N == reply'.refreshToken
              IN  /\ u \in DOMAIN users /\ users[u].activo
                  /\ T \in Tokens(users[u].refreshTokens)
                  /\ N \in Tokens(users'[u].refreshTokens)
                  /\ T /= N => T \notin Tokens(users'[u].refreshTokens)
                  /\ Tokens(users'[u].refreshTokens)
                       = (Tokens(users[u].refreshTokens) \ {T}) \cup {N}
        /\ ( /\ RefreshStep
             /\ \/ reply'.userId \notin DOMAIN users
                \/ ~users[reply'.userId].activo
                \/ reply'.refresh_token
                     \notin Tokens(users[reply'.userId].refreshTokens) )
           => (reply'.status = 401 /\ users' = users)
        /\ \A u \in DOMAIN users :
             \A T \in Tokens(users'[u].refreshTokens) \ Tokens(users[u].refreshTokens) :
                /\ reply'.op \in {"login", "refresh"}
                /\ reply'.status = 200
                /\ reply'.userId = u
                /\ reply'.refreshToken = T ]_vars

\* a token of an earlier instant refused as not stored while its active user
\* holds the token issued at this instant and not the presented one
C30_Witness ==
    /\ reply.op = "refresh" /\ reply.status = 401
    /\ reply.code = "UNAUTHORIZED_REFRESH_TOKEN"
    /\ reply.userId \in DOMAIN users
    /\ users[reply.userId].activo
    /\ reply.refresh_token.iat < now
    /\ Tokens(users[reply.userId].refreshTokens)
         = {generateSecureTokens(reply.userId, now)}

====
